---- MODULE Spec2Model ----
(***************************************************************************)
(* Neuro-Stream: multimodal video indexing and retrieval.                  *)
(*   src/src/processor.py    VideoProcessor  (frames, audio segments)      *)
(*   src/src/embedding.py    EmbeddingEngine (encode_images, encode_text)  *)
(*   src/src/vector_store.py VectorStore     (collection, index, search)   *)
(*   src/src/api.py          lifespan, ingest, background task, health     *)
(***************************************************************************)
EXTENDS Integers, Sequences, FiniteSets, TLC

(***************************************************************************)
(* Bounds of the model.                                                    *)
(***************************************************************************)
MaxIngests == 2        \* uploads the ingest endpoint accepts in one run
MaxCalls == 2          \* direct index_video calls in one run
MaxFrames == 4         \* frames of a video handed to extract_frames

(***************************************************************************)
(* Program constants.                                                      *)
(***************************************************************************)
DefaultInterval == 2   \* extract_frames(..., interval: int = 2)

(***************************************************************************)
(* Python values held in payload dictionaries.  A dictionary is a function *)
(* from its keys; every value is a tagged record so that values of         *)
(* different Python types can be compared.                                 *)
(***************************************************************************)
None == [kind |-> "none", n |-> 0, s |-> "", t |-> <<>>]
Num(n) == [kind |-> "num", n |-> n, s |-> "", t |-> <<>>]
Str(s) == [kind |-> "str", n |-> 0, s |-> s, t |-> <<>>]
Text(t) == [kind |-> "text", n |-> 0, s |-> "", t |-> t]

EmptyDict == [k \in {} |-> None]

\* {**base, **extra}: the keys of both, extra's value where both have the key.
DictMerge(base, extra) ==
    [k \in DOMAIN base \cup DOMAIN extra |->
        IF k \in DOMAIN extra THEN extra[k] ELSE base[k]]

\* d.get(key, default)
DictGet(d, key, default) == IF key \in DOMAIN d THEN d[key] ELSE default

(***************************************************************************)
(* Transcript text is a sequence of characters; " " is whitespace.         *)
(***************************************************************************)
RECURSIVE LStrip(_)
LStrip(t) == IF t # <<>> /\ Head(t) = " " THEN LStrip(Tail(t)) ELSE t

RECURSIVE RStrip(_)
RStrip(t) ==
    IF t # <<>> /\ t[Len(t)] = " " THEN RStrip(SubSeq(t, 1, Len(t) - 1)) ELSE t

\* str.strip()
Strip(t) == RStrip(LStrip(t))

(***************************************************************************)
(* Media.  A video file is what the decoder (cv2), the demuxer (moviepy)   *)
(* and the transcriber (whisper) make of it:                               *)
(*   exists   the path exists                                              *)
(*   opens    cv2.VideoCapture opens it                                    *)
(*   fps10    the reported frame rate, in tenths of a frame per second     *)
(*   nframes  the frames cap.read() delivers                               *)
(*   faultAt  the decode index at which decoding raises (nframes: never)   *)
(*   clip     VideoFileClip reads it                                       *)
(*   audio    it has an audio track                                        *)
(*   raw      the segments whisper emits for its audio track               *)
(***************************************************************************)
Video(exists, opens, fps10, nframes, faultAt, clip, audio, raw) ==
    [exists |-> exists, opens |-> opens, fps10 |-> fps10, nframes |-> nframes,
     faultAt |-> faultAt, clip |-> clip, audio |-> audio, raw |-> raw]

RawSeg(start, end, text) == [start |-> start, end |-> end, text |-> text]

\* int(x) for x = num / 10: truncation towards zero.
IntOfTenths(num) == IF num >= 0 THEN num \div 10 ELSE -((-num) \div 10)

\* cap.get(cv2.CAP_PROP_POS_MSEC) after frame k was read, in milliseconds.
PosMsec(video, k) == IF video.fps10 > 0 THEN (k * 10000) \div video.fps10 ELSE 0

\* Python's a % b == 0 for b # 0 (the sign of b does not matter for a zero remainder).
DividesPy(b, a) == a % (IF b < 0 THEN -b ELSE b) = 0

\* The while loop of extract_frames from decode index k on: frames appended so far
\* are acc.  An exception in the loop is logged and the frames so far are kept.
RECURSIVE FrameLoop(_, _, _, _)
FrameLoop(video, frame_interval, k, acc) ==
    IF k >= video.nframes THEN acc                       \* cap.read(): not success
    ELSE IF k = video.faultAt THEN acc                   \* the decoder raises
    ELSE IF frame_interval = 0 THEN acc                  \* ZeroDivisionError
    ELSE FrameLoop(video, frame_interval, k + 1,
            IF DividesPy(frame_interval, k)
            THEN Append(acc, [image |-> k, timestamp |-> PosMsec(video, k)])
            ELSE acc)

\* VideoProcessor.extract_frames: [raised, frames].
extract_frames(video, interval) ==
    IF ~video.exists THEN [raised |-> "FileNotFoundError", frames |-> <<>>]
    ELSE IF ~video.opens THEN [raised |-> "none", frames |-> <<>>]
    ELSE IF video.fps10 = 0 THEN [raised |-> "none", frames |-> <<>>]
    ELSE [raised |-> "none",
          frames |-> FrameLoop(video, IntOfTenths(video.fps10 * interval), 0, <<>>)]

\* One transcriber segment as extract_audio_segments appends it.
SegmentOf(segment) ==
    [start |-> segment.start, end |-> segment.end, text |-> Strip(segment.text)]

\* os.remove(temp_audio_path) in the finally block: an OSError is passed over, and
\* the file then stays.
RemoveTempAudio(removeFails) == removeFails

\* VideoProcessor.extract_audio_segments: [raised, segments, temp], temp telling
\* whether the temporary audio file the call created exists when it returns.
\* env: writeFails (write_audiofile raises), transcribeFails (whisper raises),
\* removeFails (os.remove raises OSError).
extract_audio_segments(video, env) ==
    IF ~video.exists
    THEN [raised |-> "FileNotFoundError", segments |-> <<>>, temp |-> FALSE]
    ELSE IF ~video.clip                                  \* VideoFileClip raises
    THEN [raised |-> "none", segments |-> <<>>, temp |-> FALSE]
    ELSE IF ~video.audio                                 \* video.audio is None
    THEN [raised |-> "none", segments |-> <<>>, temp |-> FALSE]
    ELSE IF env.writeFails \/ env.transcribeFails        \* mkstemp done, then raises
    THEN [raised |-> "none", segments |-> <<>>,
          temp |-> RemoveTempAudio(env.removeFails)]
    ELSE [raised |-> "none", segments |-> [i \in 1..Len(video.raw) |-> SegmentOf(video.raw[i])],
          temp |-> RemoveTempAudio(env.removeFails)]

(***************************************************************************)
(* Embedding engine.  The CLIP model is a black box; a vector is modelled   *)
(* as a non-empty list holding a code of the embedded content.             *)
(***************************************************************************)
EmbedImage(image) == <<image % 3>>
EmbedText(t) == <<Len(t) % 3>>

\* EmbeddingEngine.encode_images: [] for no images and when the model raises.
encode_images(images, modelFails) ==
    IF images = <<>> THEN <<>>
    ELSE IF modelFails THEN <<>>
    ELSE [i \in 1..Len(images) |-> EmbedImage(images[i])]

encode_text_unchecked(text_list, modelFails) ==
    [i \in 1..Len(text_list) |-> EmbedText(text_list[i])]
\* EmbeddingEngine.encode_text: [] for no texts and when the model raises.
encode_text(text_list, modelFails) ==
    IF text_list = <<>> THEN <<>>
    ELSE IF modelFails THEN <<>>
    ELSE [i \in 1..Len(text_list) |-> EmbedText(text_list[i])]

(***************************************************************************)
(* Vector store.  The Qdrant storage maps the name of each collection that *)
(* exists to the set of its points [id, vector, payload]; it outlives the   *)
(* VectorStore objects built over it.                                      *)
(***************************************************************************)
DefaultCollection == "neuro_stream"

NoCollections == [c \in {} |-> {}]

\* str(uuid.uuid4()): a value no earlier call returned; issued counts the calls so
\* far and i is the position of this call among the ones now being made.
Uuid(n) == [kind |-> "uuid", n |-> n, s |-> "", t |-> <<>>]
PointIdByPosition(issued, i) == Uuid(i)
PointId(issued, i) == Uuid(issued + i)

\* `if vector:` - None and the empty list are both falsy; both are <<>> here.
Truthy(vector) == vector # <<>>

IsTruthyItem(item) == Truthy(item.vector)

\* {<fields of the point>, **metadata}
WithMetadata(base, metadata) == DictMerge(base, metadata)

VisualPayload(video_id, item, metadata) ==
    WithMetadata([video_id |-> video_id, type |-> Str("visual"),
                  timestamp |-> item.timestamp], metadata)

AudioPayload(video_id, item, metadata) ==
    WithMetadata([video_id |-> video_id, type |-> Str("audio"),
                  start |-> item.start, end |-> item.end, text |-> item.text,
                  timestamp |-> item.start], metadata)

\* The points list index_video builds: the visual items with a vector, then the
\* audio items with a vector, each under a fresh id.
BuildPoints(video_id, visual_vectors, audio_vectors, metadata, issued) ==
    LET vis == SelectSeq(visual_vectors, IsTruthyItem)
        aud == SelectSeq(audio_vectors, IsTruthyItem)
    IN  [i \in 1..(Len(vis) + Len(aud)) |->
            IF i <= Len(vis)
            THEN [id |-> PointId(issued, i), vector |-> vis[i].vector,
                  payload |-> VisualPayload(video_id, vis[i], metadata)]
            ELSE [id |-> PointId(issued, i), vector |-> aud[i - Len(vis)].vector,
                  payload |-> AudioPayload(video_id, aud[i - Len(vis)], metadata)]]

Range(s) == {s[i] : i \in 1..Len(s)}

\* client.upsert(collection_name, points): insert or replace by point id.
UpsertPoints(stored, points) ==
    {p \in stored : \A q \in Range(points) : q.id # p.id} \cup Range(points)

index_video_per_point(store, colls, video_id, visual_vectors, audio_vectors, metadata, issued, upsertFails) ==
    LET points == BuildPoints(video_id, visual_vectors, audio_vectors, metadata, issued)
        name == store.collection_name
    IN  IF upsertFails \/ name \notin DOMAIN colls
        THEN [points |-> points, upserts |-> Len(points), ok |-> FALSE,
              collections |-> colls]
        ELSE [points |-> points, upserts |-> Len(points), ok |-> points # <<>>,
              collections |-> [colls EXCEPT ![name] = UpsertPoints(colls[name], points)]]
\* VectorStore.index_video: [points, upserts, ok, collections].  upserts counts the
\* client.upsert calls made; upsertFails is the client raising (also raised for a
\* collection that does not exist), which is logged.
index_video(store, colls, video_id, visual_vectors, audio_vectors, metadata, issued, upsertFails) ==
    LET points == BuildPoints(video_id, visual_vectors, audio_vectors, metadata, issued)
        name == store.collection_name
    IN  IF points = <<>>
        THEN [points |-> points, upserts |-> 0, ok |-> FALSE, collections |-> colls]
        ELSE IF upsertFails \/ name \notin DOMAIN colls
        THEN [points |-> points, upserts |-> 1, ok |-> FALSE, collections |-> colls]
        ELSE [points |-> points, upserts |-> 1, ok |-> TRUE,
              collections |-> [colls EXCEPT ![name] = UpsertPoints(colls[name], points)]]

\* any(c.name == self.collection_name for c in collections.collections)
CollectionExistsNever(colls, name) == FALSE
CollectionExists(colls, name) == name \in DOMAIN colls

\* client.create_collection: the engine refuses a name that exists.
CreateCollection(colls, name, createFails) ==
    IF createFails \/ name \in DOMAIN colls
    THEN [raised |-> TRUE, collections |-> colls]
    ELSE [raised |-> FALSE,
          collections |-> [c \in DOMAIN colls \cup {name} |->
                              IF c \in DOMAIN colls THEN colls[c] ELSE {}]]

\* VectorStore._ensure_collection_exists: every exception is logged, none raised.
\* The result records what the call saw and did: existed (the collection was in the
\* storage), created (create_collection was called), failed (a client call raised),
\* raised (the call itself raised), collections.
\* env: listFails (get_collections raises), createFails (create_collection raises).
_ensure_collection_exists(colls, name, env) ==
    LET before == name \in DOMAIN colls
    IN  IF env.listFails
        THEN [existed |-> before, created |-> FALSE, failed |-> TRUE,
              raised |-> FALSE, collections |-> colls]
        ELSE IF ~CollectionExists(colls, name)
        THEN LET c == CreateCollection(colls, name, env.createFails)
             IN  [existed |-> before, created |-> TRUE, failed |-> c.raised,
                  raised |-> FALSE, collections |-> c.collections]
        ELSE [existed |-> before, created |-> FALSE, failed |-> FALSE,
              raised |-> FALSE, collections |-> colls]

\* The object VectorStore.__init__ builds.
VectorStoreObject(collection_name, embedding_engine) ==
    [collection_name |-> collection_name, embedding_engine |-> embedding_engine]

NoStore == [collection_name |-> "", embedding_engine |-> FALSE]

\* VectorStore.__init__: a failure to connect is logged and raised again.
VectorStoreInit(colls, collection_name, embedding_engine, connectFails, env) ==
    IF connectFails
    THEN [raised |-> TRUE, store |-> NoStore,
          ensure |-> [existed |-> collection_name \in DOMAIN colls, created |-> FALSE,
                      failed |-> FALSE, raised |-> FALSE, collections |-> colls]]
    ELSE [raised |-> FALSE,
          store |-> VectorStoreObject(collection_name, embedding_engine),
          ensure |-> _ensure_collection_exists(colls, collection_name, env)]

(***************************************************************************)
(* Search.  Similarity of two vectors, and the rankings query_points may   *)
(* return: at most limit points, by descending score, ties in any order.   *)
(***************************************************************************)
Abs(x) == IF x < 0 THEN -x ELSE x
Score(q, v) == 2 - Abs(q[1] - v[1])

RankedHits(points, q, limit) ==
    LET n == IF Cardinality(points) < limit THEN Cardinality(points) ELSE limit
    IN  {h \in [1..n -> points] :
            /\ \A i, j \in 1..n : i < j =>
                  /\ h[i] # h[j]
                  /\ Score(q, h[i].vector) >= Score(q, h[j].vector)
            /\ \A p \in points : (\A i \in 1..n : h[i] # p) =>
                  \A i \in 1..n : Score(q, h[i].vector) >= Score(q, p.vector)}

\* One hit as search formats it.
ResultOf(q, hit) ==
    [score |-> Num(Score(q, hit.vector)),
     timestamp |-> DictGet(hit.payload, "timestamp", None),
     video_id |-> DictGet(hit.payload, "video_id", None),
     type |-> DictGet(hit.payload, "type", None),
     text |-> DictGet(hit.payload, "text", None)]

\* `if not self.embedding_engine`
EngineMissing(store) == ~store.embedding_engine

\* VectorStore.search: [raised, queried, results]; queried tells whether
\* query_points was called.  hits is the ranking the index returns when it answers.
\* env: embedFails (the model raises in encode_text), queryFails (query_points
\* raises; it also raises for a collection that does not exist).
search(store, colls, query_text, top_k, env, hits) ==
    IF EngineMissing(store)
    THEN [raised |-> "ValueError", queried |-> FALSE, results |-> <<>>]
    ELSE LET query_vector_batch == encode_text(<<query_text>>, env.embedFails)
         IN  IF query_vector_batch = <<>>
             THEN [raised |-> "none", queried |-> FALSE, results |-> <<>>]
             ELSE IF env.queryFails \/ store.collection_name \notin DOMAIN colls
             THEN [raised |-> "none", queried |-> TRUE, results |-> <<>>]
             ELSE [raised |-> "none", queried |-> TRUE,
                   results |-> [i \in 1..Len(hits) |->
                                   ResultOf(query_vector_batch[1], hits[i])]]

\* The rankings the index can answer a search with.
SearchHits(store, colls, query_text, top_k) ==
    IF store.collection_name \in DOMAIN colls
    THEN RankedHits(colls[store.collection_name], EmbedText(query_text), top_k)
    ELSE {<<>>}

(***************************************************************************)
(* api.py: the steps of process_video_task on its local values.            *)
(***************************************************************************)
\* `except Exception as e` around the whole body of process_video_task.
Exceptions == {"KeyError", "FileNotFoundError", "IndexError"}
CatchesLookupOnly(exc) == exc = "KeyError"
Catches(exc) == exc \in Exceptions

\* Step 2 (Embed Visual): visual_embeddings[i] raises IndexError when the engine
\* returned fewer vectors than there are frames.
EmbedVisual(frames, modelFails) ==
    IF frames = <<>> THEN [raised |-> "none", data |-> <<>>]
    ELSE LET visual_embeddings ==
                 encode_images([i \in 1..Len(frames) |-> frames[i].image], modelFails)
         IN  IF Len(visual_embeddings) < Len(frames)
             THEN [raised |-> "IndexError", data |-> <<>>]
             ELSE [raised |-> "none",
                   data |-> [i \in 1..Len(frames) |->
                               [vector |-> visual_embeddings[i],
                                timestamp |-> Num(frames[i].timestamp)]]]

EmbedAudioUnguarded(audio_segments, modelFails) ==
    LET audio_embeddings ==
            encode_text([i \in 1..Len(audio_segments) |-> audio_segments[i].text],
                        modelFails)
    IN  IF audio_embeddings = <<>>
        THEN [raised |-> "IndexError", data |-> <<>>]
        ELSE [raised |-> "none",
              data |-> [i \in 1..Len(audio_segments) |->
                          [vector |-> audio_embeddings[i],
                           start |-> Num(audio_segments[i].start),
                           end |-> Num(audio_segments[i].end),
                           text |-> Text(audio_segments[i].text)]]]
\* Step 3 (Embed Audio): audio_embeddings[i] raises IndexError likewise.
EmbedAudio(audio_segments, modelFails) ==
    IF audio_segments = <<>> THEN [raised |-> "none", data |-> <<>>]
    ELSE LET audio_embeddings ==
                 encode_text([i \in 1..Len(audio_segments) |-> audio_segments[i].text],
                             modelFails)
         IN  IF Len(audio_embeddings) < Len(audio_segments)
             THEN [raised |-> "IndexError", data |-> <<>>]
             ELSE [raised |-> "none",
                   data |-> [i \in 1..Len(audio_segments) |->
                               [vector |-> audio_embeddings[i],
                                start |-> Num(audio_segments[i].start),
                                end |-> Num(audio_segments[i].end),
                                text |-> Text(audio_segments[i].text)]]]

\* metadata={"filename": os.path.basename(file_path)}
TaskMetadata == [filename |-> Str("upload")]

\* health_check(): the response for a given app_state.
health_check(state) == [status |-> "running", models_loaded |-> "processor" \in state]

(***************************************************************************)
(* Inputs of the model.                                                    *)
(***************************************************************************)
Sp == " "
VidTalk ==
    Video(TRUE, TRUE, 10, 3, 3, TRUE, TRUE,
          <<RawSeg(0, 1000, <<Sp, "a">>), RawSeg(1000, 2000, <<Sp, Sp>>)>>)
VidSilent == Video(TRUE, TRUE, 10, 3, 3, TRUE, FALSE, <<>>)
VidBroken == Video(TRUE, FALSE, 0, 0, 0, FALSE, FALSE, <<>>)
VidGone == Video(FALSE, FALSE, 0, 0, 0, FALSE, FALSE, <<>>)

\* What the saved upload is when its task runs: a talking video, a video without
\* an audio track, a file that is no media, a file removed in the meantime.
Uploads == {VidTalk, VidSilent, VidBroken, VidGone}

Queries == {<<"a">>}
TopKs == {1, 2}

AudioEnvs == [writeFails : BOOLEAN, transcribeFails : BOOLEAN, removeFails : BOOLEAN]
\* The task keeps the segments only: a failing write_audiofile gives it what a
\* failing transcription gives it, and the fate of the temporary file nothing.
TaskAudioEnvs == {env \in AudioEnvs : ~env.writeFails /\ ~env.removeFails}
EnsureEnvs == [listFails : BOOLEAN, createFails : BOOLEAN]
SearchEnvs == [embedFails : BOOLEAN, queryFails : BOOLEAN]

(***************************************************************************)
(* State.                                                                  *)
(***************************************************************************)
VARIABLES
    app_state,      \* the keys of api.app_state
    lifePc,         \* where lifespan() stands
    vector_store,   \* the VectorStore object last constructed (NoStore: none)
    collections,    \* the Qdrant storage
    issued,         \* the number of uuid.uuid4() calls so far
    tasks,          \* the background tasks, in the order ingest_video queued them
    searchOut,      \* the outcome of the last direct search call
    ensureOut,      \* what the last _ensure_collection_exists saw and did
    indexOut,       \* the arguments and outcome of the last direct index_video call
    calls,          \* direct index_video calls made so far
    extractOut      \* the input and outcome of the last direct extraction call

vars == <<app_state, lifePc, vector_store, collections, issued, tasks, searchOut,
          ensureOut, indexOut, calls, extractOut>>

NoSearch == [raised |-> "none", queried |-> FALSE, results |-> <<>>, called |-> FALSE,
             embedFails |-> FALSE, queryFails |-> FALSE, engine |-> FALSE]
NoEnsure == [existed |-> FALSE, created |-> FALSE, failed |-> FALSE,
             raised |-> FALSE, called |-> FALSE,
             before |-> NoCollections, after |-> NoCollections]
NoExtract == [op |-> "none", video |-> Video(FALSE, FALSE, 0, 0, 0, FALSE, FALSE, <<>>),
              interval |-> 0, removeFails |-> FALSE, transcribeFails |-> FALSE, raised |-> "none", frames |-> <<>>,
              segments |-> <<>>, temp |-> FALSE]
NoIndex == [called |-> FALSE, video_id |-> None, visual |-> <<>>, audio |-> <<>>,
            metadata |-> EmptyDict, points |-> <<>>, upserts |-> 0, ok |-> FALSE]

Init ==
    /\ app_state = {}
    /\ lifePc = "start"
    /\ vector_store = NoStore
    /\ collections = NoCollections
    /\ issued = 0
    /\ tasks = <<>>
    /\ searchOut = NoSearch
    /\ ensureOut = NoEnsure
    /\ indexOut = NoIndex
    /\ calls = 0
    /\ extractOut = NoExtract

(***************************************************************************)
(* api.py: lifespan.                                                       *)
(***************************************************************************)
AppKeys == {"processor", "embedding_engine", "vector_store"}

EnsureLog(r, before) ==
    [existed |-> r.existed, created |-> r.created, failed |-> r.failed,
     raised |-> r.raised, called |-> TRUE, before |-> before, after |-> r.collections]

\* app_state["processor"] = VideoProcessor(...): whisper.load_model may raise.
LoadProcessor ==
    /\ lifePc = "start"
    /\ \E loadFails \in BOOLEAN :
          IF loadFails
          THEN lifePc' = "failed" /\ UNCHANGED app_state
          ELSE lifePc' = "processor" /\ app_state' = app_state \cup {"processor"}
    /\ UNCHANGED <<vector_store, collections, issued, tasks, searchOut, ensureOut,
                   indexOut, calls, extractOut>>

\* app_state["embedding_engine"] = EmbeddingEngine(): SentenceTransformer may raise.
LoadEngine ==
    /\ lifePc = "processor"
    /\ \E loadFails \in BOOLEAN :
          IF loadFails
          THEN lifePc' = "failed" /\ UNCHANGED app_state
          ELSE lifePc' = "engine" /\ app_state' = app_state \cup {"embedding_engine"}
    /\ UNCHANGED <<vector_store, collections, issued, tasks, searchOut, ensureOut,
                   indexOut, calls, extractOut>>

\* app_state["vector_store"] = VectorStore(embedding_engine=..., path=...)
LoadStore ==
    /\ lifePc = "engine"
    /\ \E connectFails \in BOOLEAN, env \in EnsureEnvs :
          LET r == VectorStoreInit(collections, DefaultCollection, TRUE,
                                   connectFails, env)
          IN  IF r.raised
              THEN /\ lifePc' = "failed"
                   /\ UNCHANGED <<app_state, vector_store, collections, ensureOut>>
              ELSE /\ lifePc' = "serving"
                   /\ app_state' = app_state \cup {"vector_store"}
                   /\ vector_store' = r.store
                   /\ collections' = r.ensure.collections
                   /\ ensureOut' = EnsureLog(r.ensure, collections)
    /\ UNCHANGED <<issued, tasks, searchOut, indexOut, calls, extractOut>>

\* After the yield: app_state.clear()
Shutdown ==
    /\ lifePc = "serving"
    /\ lifePc' = "stopped"
    /\ app_state' = {}
    /\ UNCHANGED <<vector_store, collections, issued, tasks, searchOut, ensureOut,
                   indexOut, calls, extractOut>>

(***************************************************************************)
(* api.py: the ingest endpoint and the background task.                    *)
(***************************************************************************)
Finished(task) == task.pc = "done"

\* The record of one upload: pc tells where its background task stands ("rejected":
\* the upload could not be saved and no task was queued).
NewTask(video, video_id, saved) ==
    [pc |-> IF saved THEN "queued" ELSE "rejected",
     video |-> IF saved THEN video ELSE VidGone,
     video_id |-> video_id, upload |-> saved /\ video.exists,
     frames |-> <<>>, segments |-> <<>>, visual |-> <<>>, audio |-> <<>>,
     points |-> <<>>, written |-> {},
     exc |-> "none", escaped |-> FALSE]

\* ingest_video: a request served between startup and shutdown.  A failure to save
\* the upload answers 500 and queues nothing.
IngestVideo ==
    /\ lifePc = "serving"
    /\ Len(tasks) < MaxIngests
    /\ \E video \in Uploads, saveFails \in BOOLEAN :
          tasks' = Append(tasks, NewTask(video, Uuid(issued + 1), ~saveFails))
    /\ issued' = issued + 1
    /\ UNCHANGED <<app_state, lifePc, vector_store, collections, searchOut,
                   ensureOut, indexOut, calls, extractOut>>

\* An exception raised in the body of process_video_task: the handler logs it; the
\* cleanup of the uploaded file is skipped.
Raise(task, exc) ==
    [task EXCEPT !.pc = "done", !.exc = exc, !.escaped = ~Catches(exc)]

\* process_video_task, lines 57-65: the app_state lookups, then step 1 (Extract).
ExtractStep(task, state, env) ==
    LET f == extract_frames(task.video, DefaultInterval)
        a == extract_audio_segments(task.video, env)
    IN  IF ~(AppKeys \subseteq state) THEN Raise(task, "KeyError")
        ELSE IF f.raised # "none" THEN Raise(task, f.raised)
        ELSE IF a.raised # "none" THEN Raise(task, a.raised)
        ELSE [task EXCEPT !.frames = f.frames, !.segments = a.segments]

\* process_video_task, lines 67-89: steps 2 and 3 (Embed Visual, Embed Audio).
EmbedStep(task, imageFails, textFails) ==
    LET v == EmbedVisual(task.frames, imageFails)
        a == EmbedAudio(task.segments, textFails)
    IN  IF v.raised # "none" THEN Raise(task, v.raised)
        ELSE IF a.raised # "none" THEN Raise([task EXCEPT !.visual = v.data], a.raised)
        ELSE [task EXCEPT !.pc = "embedded", !.visual = v.data, !.audio = a.data]

\* process_video_task up to the call of index_video (lines 56-89): it reads
\* app_state once, at its start, and then works on its own values only.
TaskPrepare(t) ==
    /\ tasks[t].pc = "queued"
    /\ \E env \in TaskAudioEnvs, imageFails \in BOOLEAN, textFails \in BOOLEAN :
          LET extracted == ExtractStep(tasks[t], app_state, env)
          IN  tasks' = [tasks EXCEPT ![t] =
                  IF Finished(extracted) THEN extracted
                  ELSE EmbedStep(extracted, imageFails, textFails)]
    /\ UNCHANGED <<app_state, lifePc, vector_store, collections, issued, searchOut,
                   ensureOut, indexOut, calls, extractOut>>

\* process_video_task, lines 91-102: step 4 (Index), in which index_video logs a
\* failing upsert, and the removal of the uploaded file.
TaskIndex(t) ==
    /\ tasks[t].pc = "embedded"
    /\ \E upsertFails \in BOOLEAN :
          LET task == tasks[t]
              r == index_video(vector_store, collections, task.video_id, task.visual,
                               task.audio, TaskMetadata, issued, upsertFails)
          IN  /\ collections' = r.collections
              /\ issued' = issued + Len(r.points)
              /\ tasks' = [tasks EXCEPT ![t] =
                     [task EXCEPT !.pc = "done", !.upload = FALSE,
                                  !.points = IF r.upserts > 0 THEN r.points ELSE <<>>,
                                  !.written = IF r.ok THEN Range(r.points) ELSE {}]]
    /\ UNCHANGED <<app_state, lifePc, vector_store, searchOut, ensureOut, indexOut,
                   calls, extractOut>>

SearchLog(r, store, env) ==
    [raised |-> r.raised, queried |-> r.queried, results |-> r.results,
     called |-> TRUE, embedFails |-> env.embedFails, queryFails |-> env.queryFails,
     engine |-> store.embedding_engine]

\* search_video: 503 while app_state holds no vector store, else the results of
\* VectorStore.search.  It changes nothing: it is a function of the state it reads.
search_video(state, store, colls, q, top_k, env, hits) ==
    IF "vector_store" \notin state
    THEN [raised |-> "HTTPException", queried |-> FALSE, results |-> <<>>]
    ELSE search(store, colls, q, top_k, env, hits)

Next ==
    \/ LoadProcessor
    \/ LoadEngine
    \/ LoadStore
    \/ Shutdown
    \/ IngestVideo
    \/ \E t \in 1..Len(tasks) : TaskPrepare(t)
    \/ \E t \in 1..Len(tasks) : TaskIndex(t)

Spec == Init /\ [][Next]_vars

(***************************************************************************)
(* The vector store used as a library (as main.py does): construction over *)
(* the same storage, index_video and search called directly.  ensureOut,   *)
(* indexOut and searchOut hold the outcome of the last call only.          *)
(***************************************************************************)
VideoIds == {Str("vid_002")}

VisualArgs ==
    {<<>>,
     <<[vector |-> <<>>, timestamp |-> Num(2000)],
       [vector |-> <<2>>, timestamp |-> Num(4000)]>>}

AudioArgs ==
    {<<>>,
     <<[vector |-> <<1>>, start |-> Num(0), end |-> Num(1000),
        text |-> Text(<<"a">>)]>>}

Metadatas ==
    {EmptyDict,
     [filename |-> Str("sample_video_2.mp4")],
     [video_id |-> Str("other")],
     [text |-> Text(<<"x">>), timestamp |-> Num(9000)]}

\* VectorStore(collection_name, embedding_engine, ...)
Construct ==
    /\ \E engine \in BOOLEAN, connectFails \in BOOLEAN, env \in EnsureEnvs :
          LET r == VectorStoreInit(collections, DefaultCollection, engine,
                                   connectFails, env)
          IN  /\ vector_store' = IF r.raised THEN vector_store ELSE r.store
              /\ collections' = r.ensure.collections
              /\ ensureOut' = IF r.raised THEN NoEnsure
                              ELSE EnsureLog(r.ensure, collections)
    /\ searchOut' = NoSearch
    /\ indexOut' = NoIndex
    /\ UNCHANGED <<app_state, lifePc, issued, tasks, calls, extractOut>>

\* vector_store.index_video(video_id, visual_vectors, audio_vectors, metadata)
IndexVideoCall ==
    /\ vector_store # NoStore
    /\ calls < MaxCalls
    /\ \E video_id \in VideoIds, visual \in VisualArgs, audio \in AudioArgs,
          metadata \in Metadatas, upsertFails \in BOOLEAN :
          LET r == index_video(vector_store, collections, video_id, visual, audio,
                               metadata, issued, upsertFails)
          IN  /\ collections' = r.collections
              /\ issued' = issued + Len(r.points)
              /\ indexOut' = [called |-> TRUE, video_id |-> video_id,
                              visual |-> visual, audio |-> audio,
                              metadata |-> metadata, points |-> r.points,
                              upserts |-> r.upserts, ok |-> r.ok]
    /\ calls' = calls + 1
    /\ searchOut' = NoSearch
    /\ ensureOut' = NoEnsure
    /\ UNCHANGED <<app_state, lifePc, vector_store, tasks, extractOut>>

\* vector_store.search(query_text, top_k)
SearchCall ==
    /\ vector_store # NoStore
    /\ \E q \in Queries, top_k \in TopKs, env \in SearchEnvs :
       \E hits \in SearchHits(vector_store, collections, q, top_k) :
          searchOut' = SearchLog(search(vector_store, collections, q, top_k, env, hits),
                                 vector_store, env)
    /\ ensureOut' = NoEnsure
    /\ indexOut' = NoIndex
    /\ UNCHANGED <<app_state, lifePc, vector_store, collections, issued, tasks,
                   calls, extractOut>>

NextStore == Construct \/ IndexVideoCall \/ SearchCall

SpecStore == Init /\ [][NextStore]_vars

(***************************************************************************)
(* The video processor used as a library: extract_frames and               *)
(* extract_audio_segments called directly on any path.                     *)
(***************************************************************************)
\* Frame rates the decoder may report, in tenths: none, negative, 0.4, 1.0, 1.3.
FrameRates == {0, -10, 4, 10, 13}
Intervals == {1, DefaultInterval}

Transcripts ==
    {<<>>,
     <<RawSeg(0, 1000, <<Sp, "a", Sp>>)>>,
     <<RawSeg(0, 1000, <<Sp, Sp>>), RawSeg(1000, 2000, <<"b">>)>>}

\* Paths as far as extract_frames reads them.
FrameInputs ==
    {Video(exists, opens, fps10, nframes, faultAt, TRUE, FALSE, <<>>) :
        exists \in BOOLEAN, opens \in BOOLEAN, fps10 \in FrameRates,
        nframes \in 0..MaxFrames, faultAt \in 0..MaxFrames}

\* Paths as far as extract_audio_segments reads them.
AudioInputs ==
    {Video(exists, TRUE, 10, 0, 0, clip, audio, raw) :
        exists \in BOOLEAN, clip \in BOOLEAN, audio \in BOOLEAN, raw \in Transcripts}

\* processor.extract_frames(video_path, interval)
ExtractFrames ==
    /\ \E video \in FrameInputs, interval \in Intervals :
          LET r == extract_frames(video, interval)
          IN  extractOut' = [op |-> "frames", video |-> video, interval |-> interval,
                             removeFails |-> FALSE, transcribeFails |-> FALSE,
                             raised |-> r.raised, frames |-> r.frames,
                             segments |-> <<>>, temp |-> FALSE]
    /\ UNCHANGED <<app_state, lifePc, vector_store, collections, issued, tasks,
                   searchOut, ensureOut, indexOut, calls>>

\* processor.extract_audio_segments(video_path)
ExtractAudio ==
    /\ \E video \in AudioInputs, env \in AudioEnvs :
          LET r == extract_audio_segments(video, env)
          IN  extractOut' = [op |-> "audio", video |-> video, interval |-> 0,
                             removeFails |-> env.removeFails,
                             transcribeFails |-> env.writeFails \/ env.transcribeFails,
                             raised |-> r.raised, frames |-> <<>>,
                             segments |-> r.segments, temp |-> r.temp]
    /\ UNCHANGED <<app_state, lifePc, vector_store, collections, issued, tasks,
                   searchOut, ensureOut, indexOut, calls>>

NextExtract == ExtractFrames \/ ExtractAudio

SpecExtract == Init /\ [][NextExtract]_vars

(***************************************************************************)
(* Properties.                                                             *)
(***************************************************************************)
Stored == IF DefaultCollection \in DOMAIN collections
          THEN collections[DefaultCollection] ELSE {}

\* The points of a batch that were built from a visual item / an audio item.
HasVisualPoint(points, item) ==
    \E i \in 1..Len(points) :
        /\ points[i].vector = item.vector
        /\ DictGet(points[i].payload, "type", None) = Str("visual")
        /\ DictGet(points[i].payload, "timestamp", None) = item.timestamp

\* C1: when the embedding of one modality fails (here: the frames were embedded,
\* the transcript segments were not) the ingestion goes on to index_video and every
\* embedded item of the other modality is in the batch it upserts.
C1_OtherModalityStillUpserted ==
    \A t \in 1..Len(tasks) :
        LET task == tasks[t]
        IN  (/\ Finished(task)
             /\ task.frames # <<>> /\ Len(task.visual) = Len(task.frames)
             /\ task.segments # <<>> /\ task.audio = <<>>)
            => /\ task.exc = "none"
               /\ \A i \in 1..Len(task.visual) : HasVisualPoint(task.points, task.visual[i])

\* C2: no exception leaves process_video_task, whatever fails: a task in which one
\* was raised has ended, with the exception handled.
C2_NoExceptionEscapesTask ==
    \A t \in 1..Len(tasks) :
        /\ ~tasks[t].escaped
        /\ tasks[t].exc # "none" => Finished(tasks[t])
        /\ tasks[t].pc \in {"rejected", "queued", "embedded", "done"}

C2_Witness ==
    \E t, u \in 1..Len(tasks) :
        /\ Finished(tasks[t]) /\ tasks[t].exc = "IndexError"
        /\ Finished(tasks[u]) /\ tasks[u].exc \in {"KeyError", "FileNotFoundError"}

IsSoftSearch(out) ==
    /\ out.raised = "none"
    /\ out.embedFails => out.results = <<>> /\ ~out.queried
    /\ out.queryFails => out.results = <<>>

\* C3 as stated: search never raises; a query that cannot be embedded gives no
\* results without a query of the index, a failing index query gives no results.
C3_SearchNeverRaises == searchOut.called => IsSoftSearch(searchOut)

\* C3, amended: that holds of a store built with an embedding engine; a store built
\* without one raises ValueError before it embeds or queries anything.
C3_SearchSoftWithEngine ==
    searchOut.called =>
        /\ searchOut.engine => IsSoftSearch(searchOut)
        /\ ~searchOut.engine => searchOut.raised = "ValueError" /\ ~searchOut.queried

C3_Witness ==
    /\ searchOut.called /\ searchOut.engine /\ searchOut.queryFails
    /\ ~searchOut.embedFails /\ searchOut.queried
    /\ Stored # {}

\* The trimmed texts of the segments the transcriber emitted for a task's video.
TrimmedTexts(task) == {Strip(task.video.raw[i].text) : i \in 1..Len(task.video.raw)}

\* C4: whatever was ingested, in every result search_video can return a visual hit
\* has no text, an audio hit has the non-empty trimmed text of a segment of its
\* video, and no hit has the empty string as its text.
C4_ResultText ==
    \A q \in Queries, top_k \in TopKs, env \in SearchEnvs :
    \A hits \in SearchHits(vector_store, collections, q, top_k) :
        LET out == search_video(app_state, vector_store, collections, q, top_k, env, hits)
        IN  \A i \in 1..Len(out.results) :
                LET r == out.results[i]
                IN  /\ r.type = Str("visual") => r.text = None
                    /\ r.type = Str("audio") =>
                          /\ r.text.kind = "text" /\ r.text.t # <<>>
                          /\ \E t \in 1..Len(tasks) :
                                /\ tasks[t].video_id = r.video_id
                                /\ r.text.t \in TrimmedTexts(tasks[t])
                    /\ r.text # Text(<<>>)

\* The item a persisted point was built from: the i-th point of a batch comes from
\* the i-th item that has a vector, the visual items first.
ItemsWithVector(out) ==
    SelectSeq(out.visual, IsTruthyItem) \o SelectSeq(out.audio, IsTruthyItem)

\* C5: every point index_video persists carries the video_id argument, the tag of
\* its modality, its frame's timestamp or its segment's start, and a visual point
\* carries no text - for any metadata.
C5_PayloadOfPersistedPoints ==
    (indexOut.called /\ indexOut.ok) =>
        /\ Len(indexOut.points) = Len(ItemsWithVector(indexOut))
        /\ \A i \in 1..Len(indexOut.points) :
              LET point == indexOut.points[i]
                  item == ItemsWithVector(indexOut)[i]
                  visual == i <= Len(SelectSeq(indexOut.visual, IsTruthyItem))
              IN  /\ point \in Stored
                  /\ point.payload["video_id"] = indexOut.video_id
                  /\ point.payload["type"] = IF visual THEN Str("visual") ELSE Str("audio")
                  /\ point.payload["timestamp"] =
                        IF visual THEN item.timestamp ELSE item.start
                  /\ visual => "text" \notin DOMAIN point.payload

\* C6: when extract_audio_segments has returned, on whatever path, the temporary
\* audio file it created does not exist.
C6_NoTempAudioLeft == extractOut.op = "audio" => ~extractOut.temp

PointsOfType(points, type) ==
    {i \in 1..Len(points) : DictGet(points[i].payload, "type", None) = Str(type)}

\* C7: a video without an audio track yields no segment and raises nothing in the
\* extraction; once its frames are embedded the task ends without an exception, and
\* the batch it upserts holds one visual point for each extracted frame, with the
\* frame's timestamp, and no audio point.
C7_NoAudioTrack ==
    \A t \in 1..Len(tasks) :
        LET task == tasks[t]
        IN  (~task.video.audio /\ task.video.exists) =>
              /\ task.segments = <<>> /\ task.audio = <<>>
              /\ task.exc \notin {"FileNotFoundError"}
              /\ (Finished(task) /\ task.frames # <<>>
                    /\ Len(task.visual) = Len(task.frames)) =>
                    /\ task.exc = "none"
                    /\ Cardinality(PointsOfType(task.points, "visual")) = Len(task.frames)
                    /\ PointsOfType(task.points, "audio") = {}
                    /\ \A i \in 1..Len(task.frames) :
                          /\ task.points[i].vector = EmbedImage(task.frames[i].image)
                          /\ task.points[i].payload["timestamp"]
                                = Num(task.frames[i].timestamp)
                          /\ task.points[i].payload["video_id"] = task.video_id
                    /\ task.written \in {{}, Range(task.points)}

C7_Witness ==
    \E t \in 1..Len(tasks) :
        /\ tasks[t].video = VidSilent /\ Finished(tasks[t])
        /\ Len(tasks[t].frames) = 2
        /\ Cardinality(tasks[t].written) = 2
        /\ tasks[t].written \subseteq Stored

\* C8: the points two ingestions upserted never share an id, every point an
\* ingestion upserted is in the index as it was written, under that ingestion's
\* video_id, whatever the other ingestions did since, and no two ingestions share
\* a video_id.
C8_NoCollisionAcrossIngestions ==
    \A t \in 1..Len(tasks) :
        /\ \A p \in tasks[t].written :
              /\ p \in Stored
              /\ p.payload["video_id"] = tasks[t].video_id
              /\ Cardinality({q \in Stored : q.id = p.id}) = 1
        /\ \A u \in 1..Len(tasks) : u # t =>
              /\ tasks[u].video_id # tasks[t].video_id
              /\ \A p \in tasks[t].written, q \in tasks[u].written : p.id # q.id

\* Two ingestions that overlapped: the one queued second upserted first, and both
\* have finished.
C8_Witness ==
    /\ Len(tasks) >= 2
    /\ Finished(tasks[1]) /\ Finished(tasks[2])
    /\ tasks[1].written # {} /\ tasks[2].written # {}
    /\ \A p \in tasks[1].written, q \in tasks[2].written : q.id.n < p.id.n

\* C9: the health signal says loaded only when the processor, the embedding engine
\* and the vector store are all in place.
C9_ReadyOnlyWhenAllLoaded ==
    health_check(app_state).models_loaded => AppKeys \subseteq app_state

\* C10: _ensure_collection_exists raises nothing; over a collection that exists it
\* calls no create_collection and leaves the storage as it was; over a missing one
\* it touches no other collection, and when the client answers the collection is
\* there afterwards, empty.
C10_EnsureCollectionIdempotent ==
    ensureOut.called =>
        LET name == vector_store.collection_name
        IN  /\ ~ensureOut.raised
            /\ ensureOut.existed =>
                  /\ ~ensureOut.created
                  /\ ensureOut.after = ensureOut.before
            /\ ~ensureOut.existed =>
                  /\ DOMAIN ensureOut.after \subseteq DOMAIN ensureOut.before \cup {name}
                  /\ \A c \in DOMAIN ensureOut.before :
                        ensureOut.after[c] = ensureOut.before[c]
                  /\ ~ensureOut.failed =>
                        name \in DOMAIN ensureOut.after /\ ensureOut.after[name] = {}

\* A repeated construction over a collection that holds points.
C10_Witness ==
    /\ ensureOut.called /\ ensureOut.existed
    /\ DefaultCollection \in DOMAIN ensureOut.before
    /\ ensureOut.before[DefaultCollection] # {}
    /\ ensureOut.after = ensureOut.before

\* The transcriber's segments in emission order, each text trimmed, those whose
\* trimmed text is empty removed.
RECURSIVE KeptSegments(_)
KeptSegments(raw) ==
    IF raw = <<>> THEN <<>>
    ELSE LET rest == KeptSegments(Tail(raw))
             text == Strip(Head(raw).text)
         IN  IF text = <<>> THEN rest
             ELSE <<[start |-> Head(raw).start, end |-> Head(raw).end, text |-> text]>>
                  \o rest

\* The call transcribed the audio track of its video.
Transcribed(out) ==
    /\ out.op = "audio" /\ out.raised = "none"
    /\ out.video.exists /\ out.video.clip /\ out.video.audio
    /\ ~out.transcribeFails

\* C11: what extract_audio_segments returns holds no segment whose trimmed text is
\* empty; after a transcription it is the transcriber's segments in emission
\* order, each text trimmed, the segments with an empty trimmed text removed.
C11_EmptySegmentsDropped ==
    extractOut.op = "audio" =>
        /\ \A i \in 1..Len(extractOut.segments) : extractOut.segments[i].text # <<>>
        /\ Transcribed(extractOut) =>
              extractOut.segments = KeptSegments(extractOut.video.raw)

\* C12: for a reported frame rate that is 0 or negative extract_frames yields no
\* frame at all.
C12_InvalidRateNoFrames ==
    (extractOut.op = "frames" /\ extractOut.video.fps10 <= 0) =>
        extractOut.frames = <<>>

\* round(x) for x = num / 10 >= 0, halves upwards.
RoundOfTenths(num) == (num + 5) \div 10

\* The decode indices below n that are multiples of stride, in decode order.
RECURSIVE EveryStride(_, _, _)
EveryStride(stride, k, n) ==
    IF k >= n THEN <<>> ELSE <<k>> \o EveryStride(stride, k + stride, n)

\* C13: for a valid frame rate F and interval I, extract_frames emits exactly the
\* decoded frames whose decode index is a multiple of stride = round(F * I), in
\* decode order.
C13_EveryRoundedStride ==
    LET video == extractOut.video
        stride == RoundOfTenths(video.fps10 * extractOut.interval)
    IN  (/\ extractOut.op = "frames" /\ extractOut.raised = "none"
         /\ video.exists /\ video.opens /\ video.fps10 > 0
         /\ video.faultAt >= video.nframes
         /\ stride >= 1)
        => [i \in 1..Len(extractOut.frames) |-> extractOut.frames[i].image]
              = EveryStride(stride, 0, video.nframes)

\* The items of a list that carry a usable embedding.
Usable(items) == {i \in 1..Len(items) : items[i].vector # <<>>}

\* C14: a call of index_video makes at most one upsert call: none when no frame
\* and no segment has a usable embedding, otherwise one, whose batch holds a point
\* for every usable item of the call, visual and audio; a failed upsert is not
\* repeated and leaves the index without any point of the batch.
C14_AtMostOneUpsert ==
    indexOut.called =>
        LET usable == Cardinality(Usable(indexOut.visual))
                      + Cardinality(Usable(indexOut.audio))
        IN  /\ indexOut.upserts <= 1
            /\ indexOut.upserts = 0 <=> usable = 0
            /\ indexOut.upserts = 1 =>
                  /\ Len(indexOut.points) = usable
                  /\ \A i \in 1..Len(indexOut.points) :
                        indexOut.points[i].vector = ItemsWithVector(indexOut)[i].vector
            /\ ~indexOut.ok => \A i \in 1..Len(indexOut.points) :
                                  indexOut.points[i] \notin Stored

\* One call that upserted a visual and an audio point in one batch.
C14_Witness ==
    /\ indexOut.called /\ indexOut.ok /\ indexOut.upserts = 1
    /\ Len(indexOut.points) = 2
    /\ \A i \in 1..2 : indexOut.points[i] \in Stored

\* C15: when process_video_task has finished for an accepted upload, with or
\* without an exception, the uploaded file saved for it does not exist.
C15_UploadRemoved ==
    \A t \in 1..Len(tasks) : Finished(tasks[t]) => ~tasks[t].upload

====
